---------------------------- MODULE Spec2Model ----------------------------
(***************************************************************************)
(* Cluster consolidation and cost reconciliation of order-tracking.        *)
(*                                                                         *)
(* Python objects live in a heap: a cluster is named by its identity (a    *)
(* natural number) and heap[id] holds its attributes.  A Python list of    *)
(* clusters is a sequence of identities, a dict is a sequence of entries   *)
(* in insertion order (trackings_to_cost) or a function (the rest).        *)
(* Costs are natural numbers of currency units; ship dates are strings,    *)
(* modelled as sequences of digits and compared lexicographically.         *)
(***************************************************************************)
EXTENDS Integers, Sequences, FiniteSets, TLC

VARIABLES
  heap,                 \* identity -> attributes of the Cluster object
  clusters,             \* the working list of clusters (all_clusters / clusters)
  pc,                   \* position of the running program
  prev_length,          \* merge_by_purchase_orders: prev_length of the loop
  clusters_by_tracking, \* reconcile_new: the tracking index
  trackings_to_cost,    \* reconcile_new: tuple -> (group, cost), insertion order
  po_to_cost,           \* reconcile_new: purchase order -> cost
  portal,               \* the two maps as the portal loop (lines 76-83) filled them
  non_portal,           \* NonPortalReimbursements: trackings_to_costs, po_to_cost
  args,                 \* parsed command line: groups, print_unknowns
  uploaded,             \* what download_upload_clusters_new received, if called
  heap0,                \* the heap the run started from
  clusters0,            \* the list the run started from
  saved,                \* <<heap, clusters>> when an operation is applied again
  row,                  \* to_row: the row of a cluster
  returned,             \* from_row: what the call returned
  file,                 \* output/clusters.pickle: <<>> or <<the pickled list>>
  trackings_dict,       \* update_clusters: the tracking records, in loop order
  processed,            \* update_clusters: how many records the loops have done
  config                \* what the retrievers built from config answer

vars == <<heap, clusters, pc, prev_length, clusters_by_tracking,
          trackings_to_cost, po_to_cost, portal, non_portal, args, uploaded,
          heap0, clusters0, saved, row, returned, file, trackings_dict,
          processed, config>>

(***************************************************************************)
(* Bounds of the explored inputs.                                          *)
(***************************************************************************)
NumTrackings == 3      \* tracking numbers 1..NumTrackings
MaxDedupe == 3         \* longest list given to dedupe_clusters
MaxCost == 2           \* largest single cost drawn for an input

Trackings == 1..NumTrackings
Costs == 0..MaxCost

\* Ship dates: the initial '0' and some dates whose string order differs
\* from the numeric one ("10" < "2" < "20").
Dates == {<<0>>, <<1, 0>>, <<2>>, <<2, 0>>}

----------------------------------------------------------------------------
(***************************************************************************)
(* Helpers: Python built-ins used by the code.                             *)
(***************************************************************************)
Range(s) == {s[i] : i \in DOMAIN s}

\* str.__gt__: a > b in lexicographic order
RECURSIVE StrGreater(_, _)
StrGreater(a, b) ==
  IF a = <<>> THEN FALSE
  ELSE IF b = <<>> THEN TRUE
  ELSE IF Head(a) # Head(b) THEN Head(a) > Head(b)
  ELSE StrGreater(Tail(a), Tail(b))

\* max(a, b) on strings: the first argument unless the second is greater
StrMax(a, b) == IF StrGreater(b, a) THEN b ELSE a

RECURSIVE SumOver(_, _)
SumOver(S, f) ==
  IF S = {} THEN 0
  ELSE LET x == CHOOSE y \in S : TRUE IN f[x] + SumOver(S \ {x}, f)

\* Remove the first occurrence of x from list s (list.remove)
RECURSIVE ListRemove(_, _)
ListRemove(s, x) ==
  IF s = <<>> THEN <<>>
  ELSE IF Head(s) = x THEN Tail(s)
  ELSE <<Head(s)>> \o ListRemove(Tail(s), x)

----------------------------------------------------------------------------
(***************************************************************************)
(* class Cluster                                                           *)
(***************************************************************************)
\* Cluster._initiate: the attributes of a cluster.  non_reimbursed_trackings
\* is set by fill_costs_new only: <<>> while the object has no such
\* attribute, <<S>> once it holds the set S.  Likewise email_ids, set by
\* fill_costs, and cancelled_items, set by fill_cancellations.
Cluster_initiate(orders, trackings, group, expected_cost, tracked_cost, last_ship_date, purchase_orders) ==
  [orders |-> orders, trackings |-> trackings, group |-> group,
   expected_cost |-> expected_cost, tracked_cost |-> tracked_cost,
   last_ship_date |-> last_ship_date, purchase_orders |-> purchase_orders,
   non_reimbursed_trackings |-> <<>>, email_ids |-> <<>>,
   cancelled_items |-> <<>>]

\* Cluster.__init__(group)
Cluster(group) == Cluster_initiate({}, {}, group, 0, 0, <<0>>, {})

\* A mutant of merge_with: the receiver's cost is overwritten, not added to.
merge_with_overwrite(self, other) ==
  [self EXCEPT !.orders = self.orders \cup other.orders,
               !.trackings = self.trackings \cup other.trackings,
               !.expected_cost = other.expected_cost,
               !.tracked_cost = self.tracked_cost + other.tracked_cost,
               !.last_ship_date = StrMax(self.last_ship_date, other.last_ship_date),
               !.purchase_orders = self.purchase_orders \cup other.purchase_orders]

\* Cluster.merge_with(other): the new attributes of the receiver.
merge_with(self, other) ==
  [self EXCEPT !.orders = self.orders \cup other.orders,
               !.trackings = self.trackings \cup other.trackings,
               !.expected_cost = self.expected_cost + other.expected_cost,
               !.tracked_cost = self.tracked_cost + other.tracked_cost,
               !.last_ship_date = StrMax(self.last_ship_date, other.last_ship_date),
               !.purchase_orders = self.purchase_orders \cup other.purchase_orders]

----------------------------------------------------------------------------
(***************************************************************************)
(* dedupe_clusters                                                         *)
(***************************************************************************)
\* Mutant: every cluster is kept.
dedupe_keep_all(cluster, seen_tracking_ids) == TRUE

\* the test of line 81
dedupe_keep(cluster, seen_tracking_ids) ==
  cluster.trackings \cap seen_tracking_ids = {}

\* Mutant: the result is built back to front.
dedupe_prepend(result, c) == <<c>> \o result

\* result.append(cluster), line 83
dedupe_append(result, c) == Append(result, c)

RECURSIVE dedupe_loop(_, _, _, _, _)
dedupe_loop(h, cl, i, seen_tracking_ids, result) ==
  IF i > Len(cl) THEN result
  ELSE IF dedupe_keep(h[cl[i]], seen_tracking_ids)
       THEN dedupe_loop(h, cl, i + 1,
                        seen_tracking_ids \cup h[cl[i]].trackings,
                        dedupe_append(result, cl[i]))
       ELSE dedupe_loop(h, cl, i + 1, seen_tracking_ids, result)

dedupe_clusters(h, cl) == dedupe_loop(h, cl, 1, {}, <<>>)

----------------------------------------------------------------------------
(***************************************************************************)
(* Values of the variables a specification does not use.                   *)
(***************************************************************************)
NoReconcile ==
  /\ clusters_by_tracking = <<>>
  /\ trackings_to_cost = <<>>
  /\ po_to_cost = <<>>
  /\ portal = [trackings_to_cost |-> <<>>, po_to_cost |-> <<>>]
  /\ non_portal = [trackings_to_costs |-> <<>>, po_to_cost |-> <<>>]
  /\ args = [groups |-> {}, print_unknowns |-> FALSE]
  /\ uploaded = <<>>

ReconcileUnchanged ==
  UNCHANGED <<clusters_by_tracking, trackings_to_cost, po_to_cost,
              portal, non_portal, args, uploaded>>

NoRow == row = <<>> /\ returned = <<>>

NoFile == file = <<>>

NoTrackings == trackings_dict = <<>> /\ processed = 0

RowUnchanged == UNCHANGED <<row, returned>>

FileUnchanged == UNCHANGED file

TrackingsUnchanged == UNCHANGED <<trackings_dict, processed>>

\* no order has a price, an email or a cancelled item
NoConfig == config = [order_info |-> <<>>, cancellations_by_order |-> <<>>]

ConfigUnchanged == UNCHANGED config

----------------------------------------------------------------------------
(***************************************************************************)
(* SpecDedupe: dedupe_clusters applied to a list, then to its own result   *)
(* (write_clusters dedupes before pickling, get_existing_clusters after    *)
(* unpickling).                                                            *)
(***************************************************************************)
DedupeCluster(trackings) ==
  [Cluster(1) EXCEPT !.trackings = trackings]

InitDedupe ==
  /\ \E n \in 0..MaxDedupe :
       /\ heap \in [1..n -> {DedupeCluster(t) : t \in SUBSET Trackings}]
       /\ clusters = [i \in 1..n |-> i]
  /\ pc = "start"
  /\ prev_length = 0
  /\ NoReconcile
  /\ NoRow /\ NoFile /\ NoTrackings /\ NoConfig
  /\ heap0 = heap
  /\ clusters0 = clusters
  /\ saved = <<>>

Dedupe ==
  /\ pc = "start"
  /\ clusters' = dedupe_clusters(heap, clusters)
  /\ pc' = "deduped"
  /\ UNCHANGED <<heap, prev_length, heap0, clusters0, saved>>
  /\ ReconcileUnchanged
  /\ RowUnchanged /\ FileUnchanged /\ TrackingsUnchanged /\ ConfigUnchanged

DedupeAgain ==
  /\ pc = "deduped"
  /\ saved' = <<heap, clusters>>
  /\ clusters' = dedupe_clusters(heap, clusters)
  /\ pc' = "deduped_again"
  /\ UNCHANGED <<heap, prev_length, heap0, clusters0>>
  /\ ReconcileUnchanged
  /\ RowUnchanged /\ FileUnchanged /\ TrackingsUnchanged /\ ConfigUnchanged

NextDedupe == Dedupe \/ DedupeAgain

SpecDedupe == InitDedupe /\ [][NextDedupe]_vars

\* C1: the list dedupe_clusters returns has pairwise disjoint trackings sets
C1_DedupeDisjoint ==
  pc = "deduped" =>
    \A i, j \in DOMAIN clusters :
      i # j => heap[clusters[i]].trackings \cap heap[clusters[j]].trackings = {}

\* a run where a cluster was dropped and two clusters with trackings were kept
C1_Witness ==
  /\ pc = "deduped"
  /\ Len(clusters) < Len(clusters0)
  /\ \E i, j \in DOMAIN clusters :
       /\ i # j
       /\ heap[clusters[i]].trackings # {}
       /\ heap[clusters[j]].trackings # {}

\* C9: dedupe_clusters(dedupe_clusters(C)) is dedupe_clusters(C): the same
\* clusters in the same order
C9_DedupeIdempotent ==
  pc = "deduped_again" => clusters = saved[2]

\* the second application ran on a result that had dropped a cluster and
\* kept at least two
C9_Witness ==
  /\ pc = "deduped_again"
  /\ Len(saved[2]) >= 2
  /\ Len(saved[2]) < Len(clusters0)


----------------------------------------------------------------------------
(***************************************************************************)
(* SpecMergeWith: Cluster.merge_with on two clusters.  heap[1] is the      *)
(* receiver, heap[2] the argument.  The inputs come in two families: the   *)
(* three sets of both clusters vary with the scalars fixed, or the         *)
(* scalars of both clusters vary with the sets fixed.                      *)
(***************************************************************************)
NumIds == 2            \* order ids, tracking numbers, purchase orders 1..NumIds
Ids == 1..NumIds
Groups == {1, 2}       \* the buying groups

MergeSets(e, k, d, g) ==
  {Cluster_initiate(o, t, g, e, k, d, p) :
     o \in SUBSET Ids, t \in SUBSET Ids, p \in SUBSET Ids}

MergeScalars(o, t, p) ==
  {Cluster_initiate(o, t, g, e, k, d, p) :
     g \in Groups, e \in Costs, k \in Costs, d \in Dates}

InitMergeWith ==
  /\ \/ \E a \in MergeSets(1, 2, <<1, 0>>, 1), b \in MergeSets(2, 1, <<2>>, 2) :
          heap = <<a, b>>
     \/ \E a \in MergeScalars({1}, {1}, {1}), b \in MergeScalars({2}, {2}, {}) :
          heap = <<a, b>>
  /\ clusters = <<1, 2>>
  /\ pc = "start"
  /\ prev_length = 0
  /\ NoReconcile
  /\ NoRow /\ NoFile /\ NoTrackings /\ NoConfig
  /\ heap0 = heap
  /\ clusters0 = clusters
  /\ saved = <<>>

\* heap[1].merge_with(heap[2])
MergeWith ==
  /\ pc = "start"
  /\ heap' = [heap EXCEPT ![1] = merge_with(heap[1], heap[2])]
  /\ pc' = "merged"
  /\ UNCHANGED <<clusters, prev_length, heap0, clusters0, saved>>
  /\ ReconcileUnchanged
  /\ RowUnchanged /\ FileUnchanged /\ TrackingsUnchanged /\ ConfigUnchanged

NextMergeWith == MergeWith

SpecMergeWith == InitMergeWith /\ [][NextMergeWith]_vars

\* C10: merge_with leaves the receiver with the union of both clusters'
\* orders, trackings and purchase_orders, the sum of both expected_cost and
\* of both tracked_cost, the maximum of the two last_ship_date, and its group
C10_MergeWithUnion ==
  pc = "merged" =>
    LET a == heap0[1]
        b == heap0[2]
        r == heap[1]
    IN /\ r.orders = a.orders \cup b.orders
       /\ r.trackings = a.trackings \cup b.trackings
       /\ r.purchase_orders = a.purchase_orders \cup b.purchase_orders
       /\ r.expected_cost = a.expected_cost + b.expected_cost
       /\ r.tracked_cost = a.tracked_cost + b.tracked_cost
       /\ r.last_ship_date \in {a.last_ship_date, b.last_ship_date}
       /\ ~StrGreater(a.last_ship_date, r.last_ship_date)
       /\ ~StrGreater(b.last_ship_date, r.last_ship_date)
       /\ r.group = a.group

\* the example of the specification: orders {1} and {2}, trackings {1} and
\* {2}, costs 1 and 2 give orders {1,2}, trackings {1,2}, cost 3; the
\* argument's date "2" is the greater string although "10" is the greater
\* number
C10_Witness ==
  /\ pc = "merged"
  /\ heap0[1].orders = {1} /\ heap0[2].orders = {2}
  /\ heap0[1].trackings = {1} /\ heap0[2].trackings = {2}
  /\ heap0[1].expected_cost = 1 /\ heap0[2].expected_cost = 2
  /\ heap0[1].last_ship_date = <<1, 0>> /\ heap0[2].last_ship_date = <<2>>
  /\ heap0[1].group # heap0[2].group
  /\ heap[1].orders = {1, 2}
  /\ heap[1].trackings = {1, 2}
  /\ heap[1].expected_cost = 3
  /\ heap[1].last_ship_date = <<2>>

----------------------------------------------------------------------------
(***************************************************************************)
(* merge_by_purchase_orders                                                *)
(***************************************************************************)
\* Mutant: only the first cluster placed so far is looked at.
RECURSIVE find_first_only(_, _, _)
find_first_only(h, cluster, all_clusters) ==
  IF h[cluster].purchase_orders = {} THEN 0
  ELSE IF all_clusters = <<>> THEN 0
  ELSE IF h[Head(all_clusters)].purchase_orders
            \cap h[cluster].purchase_orders # {}
       THEN Head(all_clusters)
  ELSE 0

\* find_by_purchase_orders(cluster, all_clusters): the first candidate that
\* shares a purchase order with the cluster, 0 for None.
RECURSIVE find_by_purchase_orders(_, _, _)
find_by_purchase_orders(h, cluster, all_clusters) ==
  IF h[cluster].purchase_orders = {} THEN 0
  ELSE IF all_clusters = <<>> THEN 0
  ELSE IF h[Head(all_clusters)].purchase_orders
            \cap h[cluster].purchase_orders # {}
       THEN Head(all_clusters)
  ELSE find_by_purchase_orders(h, cluster, Tail(all_clusters))

\* The loop of run_merge_iteration from the i-th cluster on: the heap and
\* the result list it ends with.
RECURSIVE run_merge_loop(_, _, _, _)
run_merge_loop(h, cl, i, result) ==
  IF i > Len(cl) THEN [heap |-> h, result |-> result]
  ELSE LET to_merge == find_by_purchase_orders(h, cl[i], result)
           \* the heap and the result list after this turn of the loop
           turn == IF to_merge # 0
                   THEN [heap |-> [h EXCEPT ![to_merge] =
                                     merge_with(h[to_merge], h[cl[i]])],
                         result |-> result]
                   ELSE [heap |-> h, result |-> Append(result, cl[i])]
       IN CHOOSE r \in {run_merge_loop(s.heap, cl, i + 1, s.result) : s \in {turn}} :
            TRUE

run_merge_iteration(h, cl) == run_merge_loop(h, cl, 1, <<>>)

\* Mutant: the loop is left after its first iteration.
loop_break_always(length, cl) == TRUE

\* Mutant: the loop is never left.
loop_break_never(length, cl) == FALSE

\* the test of line 130
loop_break(length, cl) == Len(cl) = length

----------------------------------------------------------------------------
(***************************************************************************)
(* SpecMergePO: merge_by_purchase_orders on a list of clusters, one action *)
(* per iteration of its loop, then once more on its own result.  Cluster i *)
(* of the input holds order i and tracking i, so the clusters of the       *)
(* result tell which input clusters they are made of.                      *)
(***************************************************************************)
MaxMergeClusters == 3  \* longest list given to merge_by_purchase_orders
NumPOs == 2            \* purchase orders 1..NumPOs
POs == 1..NumPOs

SampleDates == <<<<2>>, <<1, 0>>, <<2, 0>>, <<0>>>>

MergeInput(i, g, p) ==
  Cluster_initiate({i}, {i}, g, i, i + i, SampleDates[(i % Len(SampleDates)) + 1], p)

\* the lists of at most MaxMergeClusters clusters with groups of G
MergePOInputs(G) ==
  /\ \E n \in 0..MaxMergeClusters :
       \E g \in [1..n -> G], p \in [1..n -> SUBSET POs] :
         /\ heap = [i \in 1..n |-> MergeInput(i, g[i], p[i])]
         /\ clusters = [i \in 1..n |-> i]
  /\ pc = "loop"
  /\ prev_length = -1
  /\ NoReconcile
  /\ NoRow /\ NoFile /\ NoTrackings /\ NoConfig
  /\ heap0 = heap
  /\ clusters0 = clusters
  /\ saved = <<>>

InitMergePO == MergePOInputs(Groups)

\* merge_by_purchase_orders never reads a group: one group for termination
InitMergePOOneGroup == MergePOInputs({1})

\* One iteration of the while loop of merge_by_purchase_orders.
Iterate(at, done) ==
  /\ pc = at
  /\ prev_length' = Len(clusters)
  /\ LET r == run_merge_iteration(heap, clusters)
     IN /\ heap' = r.heap
        /\ clusters' = r.result
        /\ pc' = IF loop_break(Len(clusters), r.result) THEN done ELSE at
  /\ UNCHANGED <<heap0, clusters0, saved>>
  /\ ReconcileUnchanged
  /\ RowUnchanged /\ FileUnchanged /\ TrackingsUnchanged /\ ConfigUnchanged

MergeIteration == Iterate("loop", "done")

\* merge_by_purchase_orders is called on what it returned
Reapply ==
  /\ pc = "done"
  /\ saved' = <<heap, clusters>>
  /\ pc' = "loop_again"
  /\ UNCHANGED <<heap, clusters, prev_length, heap0, clusters0>>
  /\ ReconcileUnchanged
  /\ RowUnchanged /\ FileUnchanged /\ TrackingsUnchanged /\ ConfigUnchanged

MergeIterationAgain == Iterate("loop_again", "done_again")

NextMergePO == MergeIteration \/ Reapply \/ MergeIterationAgain

SpecMergePO == InitMergePO /\ [][NextMergePO]_vars

\* The loop runs while it is entered: the interpreter does not pause.
FairSpecMergePO ==
  InitMergePOOneGroup /\ [][NextMergePO]_vars /\ WF_vars(NextMergePO)

SharePO(h, a, b) == h[a].purchase_orders \cap h[b].purchase_orders # {}

\* the input clusters linked to those of S by a chain of shared purchase orders
RECURSIVE Chained(_)
Chained(S) ==
  LET T == S \cup {j \in DOMAIN heap0 : \E i \in S : SharePO(heap0, i, j)}
  IN IF T = S THEN S ELSE Chained(T)

\* C2: merge_by_purchase_orders applied to its own output returns it
\* unchanged: the same list, every cluster with the same attributes
C2_MergeFixedPoint ==
  pc = "done_again" => <<heap, clusters>> = saved

\* the second application ran on an output whose clusters had been merged
\* in more than one iteration of the first
C2_Witness ==
  /\ pc = "done_again"
  /\ Len(clusters0) = 3
  /\ heap0[1].purchase_orders = {1}
  /\ heap0[2].purchase_orders = {2}
  /\ heap0[3].purchase_orders = {1, 2}
  /\ Len(saved[2]) = 1

\* C3: in the output no two distinct clusters share a purchase order, and
\* input clusters chained by shared purchase orders are in one output cluster
C3_NoSharedPO ==
  pc = "done" =>
    /\ \A a, b \in DOMAIN clusters :
         a # b => ~SharePO(heap, clusters[a], clusters[b])
    /\ \A i \in DOMAIN heap0 : \A j \in Chained({i}) :
         \E k \in DOMAIN clusters : {i, j} \subseteq heap[clusters[k]].trackings

\* clusters 1 and 2 share no purchase order and are fused through cluster 3,
\* which comes last
C3_Witness ==
  /\ pc = "done"
  /\ Len(clusters0) = 3
  /\ ~SharePO(heap0, 1, 2)
  /\ SharePO(heap0, 1, 3)
  /\ SharePO(heap0, 2, 3)
  /\ Len(clusters) = 1
  /\ heap[clusters[1]].trackings = {1, 2, 3}

\* C4: merge_by_purchase_orders terminates; an iteration never lengthens the
\* list, the loop goes on only after an iteration that shortened it and
\* stops at the first that did not
C4_Terminates ==
  /\ [][/\ Len(clusters') <= Len(clusters)
        /\ (pc = "loop" /\ pc' = "loop") => Len(clusters') < Len(clusters)
        /\ (pc = "loop" /\ pc' = "done") => Len(clusters') = Len(clusters)]_vars
  /\ <>(pc = "done")

\* the loop is about to run a third iteration
C4_Witness ==
  /\ pc = "loop"
  /\ prev_length = 3
  /\ Len(clusters) = 2
  /\ SharePO(heap, clusters[1], clusters[2])

\* the empty list is returned at once
C4_WitnessEmpty ==
  pc = "done" /\ clusters0 = <<>> /\ clusters = <<>>

----------------------------------------------------------------------------
(***************************************************************************)
(* reconcile.py: dicts                                                     *)
(*                                                                         *)
(* trackings_to_cost maps a tuple of tracking numbers to (group, cost).    *)
(* The code iterates over it, so it is a sequence of entries               *)
(* [key, group, cost] in insertion order, no key twice.  po_to_cost and    *)
(* clusters_by_tracking are functions: what the code does with them does   *)
(* not depend on their order.                                              *)
(***************************************************************************)
Keys(d) == {d[i].key : i \in DOMAIN d}

\* d[k] = v for one entry: a known key keeps its place, a new one goes last
DictSet(d, e) ==
  IF e.key \in Keys(d)
  THEN [i \in DOMAIN d |-> IF d[i].key = e.key THEN e ELSE d[i]]
  ELSE Append(d, e)

\* dict.update(other)
RECURSIVE DictUpdate(_, _)
DictUpdate(d, other) ==
  IF other = <<>> THEN d
  ELSE DictUpdate(DictSet(d, Head(other)), Tail(other))

\* dict.update(other) for the dicts held as functions
FunUpdate(f, g) ==
  [k \in DOMAIN f \cup DOMAIN g |-> IF k \in DOMAIN g THEN g[k] ELSE f[k]]

\* dict.get(key, default)
Get(f, k, default) == IF k \in DOMAIN f THEN f[k] ELSE default

(***************************************************************************)
(* apply_non_portal_reimbursements                                         *)
(***************************************************************************)
\* Mutant: the tracking tuples are merged in before the purchase orders are
\* checked.
apply_update_early(ttc, po, np) ==
  IF Keys(np.trackings_to_costs) \cap Keys(ttc) # {}
  THEN [raised |-> "Exception", trackings_to_cost |-> ttc, po_to_cost |-> po]
  ELSE IF DOMAIN np.po_to_cost \cap DOMAIN po # {}
  THEN [raised |-> "Exception",
        trackings_to_cost |-> DictUpdate(ttc, np.trackings_to_costs),
        po_to_cost |-> po]
  ELSE [raised |-> "",
        trackings_to_cost |-> DictUpdate(ttc, np.trackings_to_costs),
        po_to_cost |-> FunUpdate(po, np.po_to_cost)]

\* apply_non_portal_reimbursements(config, trackings_to_costs_map,
\* po_to_cost_map): the exception it raises, if any, and the two maps as it
\* leaves them.
apply_non_portal_reimbursements(ttc, po, np) ==
  IF Keys(np.trackings_to_costs) \cap Keys(ttc) # {}
  THEN [raised |-> "Exception", trackings_to_cost |-> ttc, po_to_cost |-> po]
  ELSE IF DOMAIN np.po_to_cost \cap DOMAIN po # {}
  THEN [raised |-> "Exception", trackings_to_cost |-> ttc, po_to_cost |-> po]
  ELSE [raised |-> "",
        trackings_to_cost |-> DictUpdate(ttc, np.trackings_to_costs),
        po_to_cost |-> FunUpdate(po, np.po_to_cost)]

(***************************************************************************)
(* map_clusters_by_tracking                                                *)
(***************************************************************************)
\* result[tracking] = cluster for every tracking of every cluster, in list
\* order: the last cluster that holds a tracking owns its entry.
RECURSIVE map_clusters_loop(_, _, _, _)
map_clusters_loop(h, all_clusters, i, result) ==
  IF i > Len(all_clusters) THEN result
  ELSE map_clusters_loop(h, all_clusters, i + 1,
         FunUpdate(result,
                   [t \in h[all_clusters[i]].trackings |-> all_clusters[i]]))

map_clusters_by_tracking(h, all_clusters) ==
  map_clusters_loop(h, all_clusters, 1, <<>>)

(***************************************************************************)
(* merge_by_trackings_tuples                                               *)
(***************************************************************************)
\* the list comprehension of lines 102-106
RECURSIVE cluster_list_of(_, _)
cluster_list_of(cbt, trackings_tuple) ==
  IF trackings_tuple = <<>> THEN <<>>
  ELSE IF Head(trackings_tuple) \in DOMAIN cbt
       THEN <<cbt[Head(trackings_tuple)]>> \o cluster_list_of(cbt, Tail(trackings_tuple))
       ELSE cluster_list_of(cbt, Tail(trackings_tuple))

\* the loop of lines 114-119 from the j-th candidate on; s holds the heap
\* and all_clusters
RECURSIVE merge_others(_, _, _)
merge_others(s, cluster_list, j) ==
  IF j > Len(cluster_list) THEN s
  ELSE LET first_cluster == cluster_list[1]
           other_cluster == cluster_list[j]
           h == s.heap
       IN IF ~(/\ h[other_cluster].trackings \subseteq h[first_cluster].trackings
               /\ h[other_cluster].orders \subseteq h[first_cluster].orders)
          THEN merge_others(
                 [heap |-> [h EXCEPT ![first_cluster] =
                                       merge_with(h[first_cluster], h[other_cluster])],
                  all_clusters |-> IF other_cluster \in Range(s.all_clusters)
                                   THEN ListRemove(s.all_clusters, other_cluster)
                                   ELSE s.all_clusters],
                 cluster_list, j + 1)
          ELSE merge_others(s, cluster_list, j + 1)

\* the body of the loop of line 98 for one tuple; s holds the heap,
\* all_clusters and clusters_by_tracking
merge_one_tuple(s, trackings_tuple) ==
  IF Len(trackings_tuple) = 1 THEN s
  ELSE LET cluster_list == cluster_list_of(s.clusters_by_tracking, trackings_tuple)
       IN IF cluster_list = <<>> THEN s
          ELSE LET m == merge_others([heap |-> s.heap, all_clusters |-> s.all_clusters],
                                     cluster_list, 2)
               IN [heap |-> m.heap,
                   all_clusters |-> m.all_clusters,
                   clusters_by_tracking |->
                     FunUpdate(s.clusters_by_tracking,
                               [t \in Range(trackings_tuple) |-> cluster_list[1]])]

RECURSIVE merge_tuples_loop(_, _, _)
merge_tuples_loop(s, ttc, i) ==
  IF i > Len(ttc) THEN s
  ELSE merge_tuples_loop(merge_one_tuple(s, ttc[i].key), ttc, i + 1)

\* merge_by_trackings_tuples(clusters_by_tracking, trackings_to_cost,
\* all_clusters): the heap, the list and the index as it leaves them
merge_by_trackings_tuples(h, cbt, ttc, all_clusters) ==
  merge_tuples_loop([heap |-> h, all_clusters |-> all_clusters,
                     clusters_by_tracking |-> cbt], ttc, 1)

(***************************************************************************)
(* fill_costs_new                                                          *)
(***************************************************************************)
\* line 128: the cluster is skipped by the reset
out_of_groups(a, cluster) == a.groups # {} /\ cluster.group \notin a.groups

\* lines 126-131.  clusters_by_tracking.values() yields a cluster once per
\* tracking indexed to it; resetting it again changes nothing.
reset_clusters(h, cbt, a) ==
  [c \in DOMAIN h |->
     IF c \in Range(cbt) /\ ~out_of_groups(a, h[c])
     THEN [h[c] EXCEPT !.non_reimbursed_trackings = <<h[c].trackings>>,
                       !.tracked_cost = 0]
     ELSE h[c]]

\* lines 135-144 from the i-th tuple on.  Reading non_reimbursed_trackings
\* of a cluster that never got one raises AttributeError, after the cost
\* was added.
RECURSIVE fill_tuples_loop(_, _, _, _)
fill_tuples_loop(h, cbt, ttc, i) ==
  IF i > Len(ttc) THEN [heap |-> h, raised |-> ""]
  ELSE LET trackings_tuple == ttc[i].key
           first_tracking == trackings_tuple[1]
       IN IF first_tracking \in DOMAIN cbt
          THEN LET cluster == cbt[first_tracking]
                   h1 == [h EXCEPT ![cluster].tracked_cost = @ + ttc[i].cost]
               IN IF h1[cluster].non_reimbursed_trackings = <<>>
                  THEN [heap |-> h1, raised |-> "AttributeError"]
                  ELSE fill_tuples_loop(
                         [h1 EXCEPT ![cluster].non_reimbursed_trackings =
                                      <<@[1] \ Range(trackings_tuple)>>],
                         cbt, ttc, i + 1)
          ELSE fill_tuples_loop(h, cbt, ttc, i + 1)

\* lines 147-151 for the values of the trackings in todo: one turn of the
\* loop per entry of clusters_by_tracking
RECURSIVE po_fixes_loop(_, _, _, _)
po_fixes_loop(h, cbt, po, todo) ==
  IF todo = {} THEN h
  ELSE LET t == CHOOSE x \in todo : TRUE
           cluster == cbt[t]
           pos == h[cluster].purchase_orders
       IN po_fixes_loop(
            [h EXCEPT ![cluster].tracked_cost =
                        @ + SumOver(pos, [q \in pos |-> Get(po, q, 0)])],
            cbt, po, todo \ {t})

\* fill_costs_new(clusters_by_tracking, trackings_to_cost, po_to_cost, args):
\* the heap as it leaves it and the exception it raises, if any
fill_costs_new(h, cbt, ttc, po, a) ==
  LET r == fill_tuples_loop(reset_clusters(h, cbt, a), cbt, ttc, 1)
  IN IF r.raised # "" THEN r
     ELSE [heap |-> po_fixes_loop(r.heap, cbt, po, DOMAIN cbt), raised |-> ""]

----------------------------------------------------------------------------
(***************************************************************************)
(* reconcile_new from line 185 on: the clusters are what update_clusters,  *)
(* fill_costs and override_pos_and_costs left, the maps what the portals   *)
(* returned.                                                               *)
(***************************************************************************)
\* line 185, get_new_tracking_pos_costs_maps: an exception of
\* apply_non_portal_reimbursements ends reconcile_new
GetMaps ==
  /\ pc = "maps"
  /\ LET r == apply_non_portal_reimbursements(trackings_to_cost, po_to_cost, non_portal)
     IN /\ trackings_to_cost' = r.trackings_to_cost
        /\ po_to_cost' = r.po_to_cost
        /\ pc' = IF r.raised # "" THEN "raised Exception" ELSE "index"
  /\ UNCHANGED <<heap, clusters, prev_length, clusters_by_tracking, portal,
                 non_portal, args, uploaded, heap0, clusters0, saved>>
  /\ RowUnchanged /\ FileUnchanged /\ TrackingsUnchanged /\ ConfigUnchanged

\* line 187
MapClustersByTracking ==
  /\ pc = "index"
  /\ clusters_by_tracking' = map_clusters_by_tracking(heap, clusters)
  /\ pc' = "merge"
  /\ UNCHANGED <<heap, clusters, prev_length, trackings_to_cost, po_to_cost,
                 portal, non_portal, args, uploaded, heap0, clusters0, saved>>
  /\ RowUnchanged /\ FileUnchanged /\ TrackingsUnchanged /\ ConfigUnchanged

\* line 188
MergeByTrackingsTuples ==
  /\ pc = "merge"
  /\ LET r == merge_by_trackings_tuples(heap, clusters_by_tracking,
                                        trackings_to_cost, clusters)
     IN /\ heap' = r.heap
        /\ clusters' = r.all_clusters
        /\ clusters_by_tracking' = r.clusters_by_tracking
  /\ pc' = "fill"
  /\ UNCHANGED <<prev_length, trackings_to_cost, po_to_cost, portal,
                 non_portal, args, uploaded, heap0, clusters0, saved>>
  /\ RowUnchanged /\ FileUnchanged /\ TrackingsUnchanged /\ ConfigUnchanged

\* line 190
FillCostsNew ==
  /\ pc = "fill"
  /\ LET r == fill_costs_new(heap, clusters_by_tracking, trackings_to_cost,
                             po_to_cost, args)
     IN /\ heap' = r.heap
        /\ pc' = IF r.raised # "" THEN "raised AttributeError" ELSE "filled"
  /\ UNCHANGED <<clusters, prev_length, clusters_by_tracking, trackings_to_cost,
                 po_to_cost, portal, non_portal, args, uploaded, heap0,
                 clusters0, saved>>
  /\ RowUnchanged /\ FileUnchanged /\ TrackingsUnchanged /\ ConfigUnchanged

\* lines 192-193: the clusters are handed to download_upload_clusters_new
Upload ==
  /\ pc = "filled"
  /\ uploaded' = <<[heap |-> heap, clusters |-> clusters]>>
  /\ pc' = "done"
  /\ UNCHANGED <<heap, clusters, prev_length, clusters_by_tracking,
                 trackings_to_cost, po_to_cost, portal, non_portal, args,
                 heap0, clusters0, saved>>
  /\ RowUnchanged /\ FileUnchanged /\ TrackingsUnchanged /\ ConfigUnchanged

\* fill_costs_new is run once more on the same index, maps and args
FillCostsNewAgain ==
  /\ pc = "filled"
  /\ saved' = <<heap, clusters>>
  /\ LET r == fill_costs_new(heap, clusters_by_tracking, trackings_to_cost,
                             po_to_cost, args)
     IN /\ heap' = r.heap
        /\ pc' = IF r.raised # "" THEN "raised AttributeError" ELSE "filled_again"
  /\ UNCHANGED <<clusters, prev_length, clusters_by_tracking, trackings_to_cost,
                 po_to_cost, portal, non_portal, args, uploaded, heap0,
                 clusters0>>
  /\ RowUnchanged /\ FileUnchanged /\ TrackingsUnchanged /\ ConfigUnchanged

NextReconcile ==
  GetMaps \/ MapClustersByTracking \/ MergeByTrackingsTuples \/ FillCostsNew \/ Upload

NextFillTwice ==
  GetMaps \/ MapClustersByTracking \/ MergeByTrackingsTuples \/ FillCostsNew
    \/ FillCostsNewAgain

----------------------------------------------------------------------------
(***************************************************************************)
(* Inputs of reconcile_new                                                 *)
(***************************************************************************)
MaxReconClusters == 3  \* most clusters in all_clusters
MaxTuples == 2         \* most entries of a portal's trackings_to_cost
MaxTupleLen == 2       \* most tracking numbers in a tuple

\* the tuples of 1..maxlen distinct tracking numbers of T
TupleKeys(T, maxlen) ==
  {k \in UNION {[1..m -> T] : m \in 1..maxlen} :
     \A i, j \in DOMAIN k : i # j => k[i] # k[j]}

\* the dicts of at most n entries with keys of K, groups of G, costs of C
Dicts(K, n, G, C) ==
  {d \in UNION {[1..m -> [key : K, group : G, cost : C]] : m \in 0..n} :
     \A i, j \in DOMAIN d : i # j => d[i].key # d[j].key}

\* the dicts held as functions: keys of D, values of V
PartialFuns(D, V) == UNION {[S -> V] : S \in SUBSET D}

RECURSIVE Ascending(_)
Ascending(S) ==
  IF S = {} THEN <<>>
  ELSE LET m == CHOOSE x \in S : \A y \in S : x <= y
       IN <<m>> \o Ascending(S \ {m})

\* The clusters update_clusters leaves: cluster c holds order c and the
\* trackings owner sends to it (0: a tracking no cluster holds), so the
\* trackings sets are pairwise disjoint and none is empty.
ClustersOf(owner, n) == {c \in 1..n : \E t \in DOMAIN owner : owner[t] = c}

HeapOf(owner, n, g, p, k) ==
  [c \in ClustersOf(owner, n) |->
     Cluster_initiate({c}, {t \in DOMAIN owner : owner[t] = c}, g[c], c, k,
                      <<0>>, p[c])]

NoArgs == [groups |-> {}, print_unknowns |-> FALSE]

ReconcileStart ==
  /\ pc = "maps"
  /\ prev_length = 0
  /\ clusters_by_tracking = <<>>
  /\ trackings_to_cost = portal.trackings_to_cost
  /\ po_to_cost = portal.po_to_cost
  /\ uploaded = <<>>
  /\ heap0 = heap
  /\ clusters0 = clusters
  /\ saved = <<>>
  /\ NoRow /\ NoFile /\ NoTrackings /\ NoConfig

(***************************************************************************)
(* SpecReconcile: any clusters of one group without purchase orders, any   *)
(* portal map of tuples.                                                   *)
(***************************************************************************)
InitReconcile ==
  /\ \E owner \in [Trackings -> 0..MaxReconClusters] :
       /\ heap = HeapOf(owner, MaxReconClusters,
                        [c \in 1..MaxReconClusters |-> 1],
                        [c \in 1..MaxReconClusters |-> {}], 0)
       /\ clusters = Ascending(ClustersOf(owner, MaxReconClusters))
  /\ \E d \in Dicts(TupleKeys(Trackings, MaxTupleLen), MaxTuples, {1}, 1..MaxCost) :
       portal = [trackings_to_cost |-> d, po_to_cost |-> <<>>]
  /\ non_portal = [trackings_to_costs |-> <<>>, po_to_cost |-> <<>>]
  /\ args = NoArgs
  /\ ReconcileStart

SpecReconcile == InitReconcile /\ [][NextReconcile]_vars

(***************************************************************************)
(* SpecCollide: two clusters, any small portal maps and non-portal         *)
(* reimbursements.  The portals report cost 1, the reimbursements cost 2.  *)
(***************************************************************************)
MaxEntries == 2        \* most entries of the portal's tuple map
NumKeyTrackings == 2   \* tracking numbers 1..NumKeyTrackings in its keys

InitCollide ==
  /\ heap = HeapOf([t \in 1..2 |-> t], 2, [c \in 1..2 |-> c],
                   [c \in 1..2 |-> IF c = 1 THEN {1} ELSE {}], 0)
  /\ clusters = <<1, 2>>
  /\ \E d \in Dicts(TupleKeys(1..NumKeyTrackings, 2), MaxEntries, {1}, {1}),
        f \in PartialFuns(POs, {1}) :
       portal = [trackings_to_cost |-> d, po_to_cost |-> f]
  /\ \E d \in Dicts(TupleKeys(1..NumKeyTrackings, 2), 1, {2}, {2}),
        f \in {g \in PartialFuns(POs, {2}) : Cardinality(DOMAIN g) <= 1} :
       non_portal = [trackings_to_costs |-> d, po_to_cost |-> f]
  /\ args = NoArgs
  /\ ReconcileStart

SpecCollide == InitCollide /\ [][NextReconcile]_vars

(***************************************************************************)
(* SpecFillTwice: at most two clusters with purchase orders and a group,   *)
(* a groups filter, at most one tuple; fill_costs_new runs twice.          *)
(***************************************************************************)
InitFillTwice ==
  /\ \E owner \in [Trackings -> 0..2], g2 \in Groups, p1 \in SUBSET POs,
        p2 \in {{}, {NumPOs}}, k \in {0, 1} :
       /\ heap = HeapOf(owner, 2, <<1, g2>>, <<p1, p2>>, k)
       /\ clusters = Ascending(ClustersOf(owner, 2))
  /\ \E d \in Dicts(TupleKeys(Trackings, 2), 1, {1}, {MaxCost}),
        S \in SUBSET POs :
       portal = [trackings_to_cost |-> d, po_to_cost |-> [q \in S |-> q]]
  /\ non_portal = [trackings_to_costs |-> <<>>, po_to_cost |-> <<>>]
  /\ \E gs \in {{}, {1}} : args = [groups |-> gs, print_unknowns |-> FALSE]
  /\ ReconcileStart

SpecFillTwice == InitFillTwice /\ [][NextFillTwice]_vars

----------------------------------------------------------------------------
(***************************************************************************)
(* Claims about reconcile_new                                              *)
(***************************************************************************)
\* the tuples of more than one tracking number
MultiTuples == {i \in DOMAIN trackings_to_cost : Len(trackings_to_cost[i].key) > 1}

TupleTrackings(S) == UNION {Range(trackings_to_cost[i].key) : i \in S}

\* the multi-tracking tuples linked to those of S by a chain of overlaps
RECURSIVE TupleChain(_)
TupleChain(S) ==
  LET T == S \cup {j \in MultiTuples :
                     Range(trackings_to_cost[j].key) \cap TupleTrackings(S) # {}}
  IN IF T = S THEN S ELSE TupleChain(T)

HeldAtStart(T) == \A t \in T : \E c \in DOMAIN heap0 : t \in heap0[c].trackings

CostOf(S) == SumOver(S, [i \in S |-> trackings_to_cost[i].cost])

\* the tuples fill_costs_new attributes to cluster c
TuplesLedBy(c) ==
  {i \in DOMAIN trackings_to_cost :
     /\ trackings_to_cost[i].key[1] \in DOMAIN clusters_by_tracking
     /\ clusters_by_tracking[trackings_to_cost[i].key[1]] = c}

\* C5: after map_clusters_by_tracking, merge_by_trackings_tuples and
\* fill_costs_new, the trackings linked by a chain of overlapping
\* multi-tracking tuples all index to one cluster, whatever the order of the
\* map's keys, and its tracked cost is the sum of the costs of those tuples
\* (stated for the maps that hold no other tuple)
C5_TupleMergeTransitive ==
  pc = "filled" =>
    \A i \in MultiTuples :
      LET S == TupleChain({i})
          T == TupleTrackings(S)
      IN HeldAtStart(T) =>
           \E c \in DOMAIN heap :
             /\ \A t \in T : t \in DOMAIN clusters_by_tracking
                             /\ clusters_by_tracking[t] = c
             /\ S = DOMAIN trackings_to_cost => heap[c].tracked_cost = CostOf(S)

\* C6: after fill_costs_new the tracked cost of a cluster with purchase
\* orders is the cost of the tuples attributed to it plus the cost of each
\* of its purchase orders once, however many trackings it holds
C6_POCostOnce ==
  pc = "filled" =>
    \A c \in Range(clusters_by_tracking) :
      (heap[c].purchase_orders # {} /\ ~out_of_groups(args, heap[c])) =>
        heap[c].tracked_cost =
          CostOf(TuplesLedBy(c))
          + SumOver(heap[c].purchase_orders,
                    [q \in heap[c].purchase_orders |-> Get(po_to_cost, q, 0)])

\* C7: a second run of fill_costs_new with the same index, maps and args
\* leaves every tracked_cost and non_reimbursed_trackings as the first did
C7_FillIdempotent ==
  pc = "filled_again" =>
    \A c \in DOMAIN heap :
      /\ heap[c].tracked_cost = saved[1][c].tracked_cost
      /\ heap[c].non_reimbursed_trackings = saved[1][c].non_reimbursed_trackings

Collision ==
  \/ Keys(non_portal.trackings_to_costs) \cap Keys(portal.trackings_to_cost) # {}
  \/ DOMAIN non_portal.po_to_cost \cap DOMAIN portal.po_to_cost # {}

\* C8: on a key collision apply_non_portal_reimbursements raises and leaves
\* both maps as the portals filled them, reconcile_new ends before the index
\* is built, a cluster is touched or anything is uploaded; without collision
\* both maps become the union of the portal and the non-portal entries
C8_CollisionAborts ==
  pc # "maps" =>
    IF Collision
    THEN /\ pc = "raised Exception"
         /\ trackings_to_cost = portal.trackings_to_cost
         /\ po_to_cost = portal.po_to_cost
         /\ heap = heap0
         /\ clusters = clusters0
         /\ clusters_by_tracking = <<>>
         /\ uploaded = <<>>
    ELSE /\ pc # "raised Exception"
         /\ Range(trackings_to_cost)
              = Range(portal.trackings_to_cost) \cup Range(non_portal.trackings_to_costs)
         /\ Len(trackings_to_cost)
              = Len(portal.trackings_to_cost) + Len(non_portal.trackings_to_costs)
         /\ DOMAIN po_to_cost = DOMAIN portal.po_to_cost \cup DOMAIN non_portal.po_to_cost
         /\ \A q \in DOMAIN portal.po_to_cost : po_to_cost[q] = portal.po_to_cost[q]
         /\ \A q \in DOMAIN non_portal.po_to_cost : po_to_cost[q] = non_portal.po_to_cost[q]

\* a purchase order of the reimbursements is also a portal's, no tuple is,
\* and the reimbursements hold a tuple that was not merged in
C8_Witness ==
  /\ pc = "raised Exception"
  /\ DOMAIN non_portal.po_to_cost \cap DOMAIN portal.po_to_cost # {}
  /\ Keys(non_portal.trackings_to_costs) \cap Keys(portal.trackings_to_cost) = {}
  /\ non_portal.trackings_to_costs # <<>>
  /\ portal.trackings_to_cost # <<>>

\* without collision the run reaches the upload with the merged maps
C8_WitnessUnion ==
  /\ pc = "done"
  /\ Len(trackings_to_cost) = 3
  /\ Cardinality(DOMAIN po_to_cost) = 2

----------------------------------------------------------------------------
(***************************************************************************)
(* Cluster.to_row and from_row.  In this part an id is a string, a         *)
(* sequence of one-character strings, and a csv cell is the ids joined by  *)
(* ",".                                                                    *)
(***************************************************************************)
\* Python's None
None == <<>>

\* ",".join(ids) for the ids in the order the set yields them
RECURSIVE Join(_)
Join(ids) ==
  IF ids = <<>> THEN <<>>
  ELSE IF Len(ids) = 1 THEN ids[1]
  ELSE ids[1] \o <<",">> \o Join(Tail(ids))

\* str.split(','): the list of the cells between the commas; the empty
\* string splits into one empty cell
RECURSIVE SplitFrom(_, _)
SplitFrom(str, cell) ==
  IF str = <<>> THEN <<cell>>
  ELSE IF Head(str) = "," THEN <<cell>> \o SplitFrom(Tail(str), <<>>)
  ELSE SplitFrom(Tail(str), Append(cell, Head(str)))

Split(str) == SplitFrom(str, <<>>)

\* the orders in which iterating over the set S can yield its members
Orderings(S) ==
  {q \in [1..Cardinality(S) -> S] : \A i, j \in DOMAIN q : i # j => q[i] # q[j]}

\* float(x) of a number: to_row leaves both costs as the numbers they are
float(x) == x

\* Cluster.to_row, the three sets yielding their members as o, t and p do
to_row(self, o, t, p) ==
  <<Join(o), Join(t), self.expected_cost, self.tracked_cost,
    self.last_ship_date, Join(p), self.group>>

\* lines 9-21: the cluster from_row builds
from_row_cluster(r) ==
  LET orders == Range(Split(r[1]))
      trackings == Range(Split(r[2]))
      expected_cost == float(r[3])
      tracked_cost == float(r[4])
      last_ship_date == r[5]
      pos == Range(Split(r[6]))
      group == IF Len(r) >= 7 THEN r[7] ELSE None
  IN Cluster_initiate(orders, trackings, group, expected_cost, tracked_cost,
                      last_ship_date, pos)

\* from_row(row): the function ends without a return statement, the cluster
\* it built stays in its local variable
from_row(r) ==
  LET cluster == from_row_cluster(r)
  IN None

(***************************************************************************)
(* SpecRoundTrip: to_row of any small cluster, then from_row of the row.   *)
(* heap[1] is the cluster, heap[2] the object from_row builds.             *)
(***************************************************************************)
IdStrings == {<<"a">>, <<"b", "c">>}

InitRoundTrip ==
  /\ \E o, t, p \in SUBSET IdStrings, g \in Groups, e, k \in Costs, d \in {<<0>>, <<2, 0>>} :
       heap = <<Cluster_initiate(o, t, g, e, k, d, p)>>
  /\ clusters = <<1>>
  /\ pc = "start"
  /\ prev_length = 0
  /\ NoReconcile
  /\ NoRow /\ NoFile /\ NoTrackings /\ NoConfig
  /\ heap0 = heap
  /\ clusters0 = clusters
  /\ saved = <<>>

ToRow ==
  /\ pc = "start"
  /\ \E o \in Orderings(heap[1].orders), t \in Orderings(heap[1].trackings),
        p \in Orderings(heap[1].purchase_orders) :
       row' = to_row(heap[1], o, t, p)
  /\ pc' = "row"
  /\ UNCHANGED <<heap, clusters, prev_length, heap0, clusters0, saved, returned>>
  /\ ReconcileUnchanged /\ FileUnchanged /\ TrackingsUnchanged /\ ConfigUnchanged

FromRow ==
  /\ pc = "row"
  /\ heap' = Append(heap, from_row_cluster(row))
  /\ returned' = from_row(row)
  /\ pc' = "parsed"
  /\ UNCHANGED <<clusters, prev_length, heap0, clusters0, saved, row>>
  /\ ReconcileUnchanged /\ FileUnchanged /\ TrackingsUnchanged /\ ConfigUnchanged

NextRoundTrip == ToRow \/ FromRow

SpecRoundTrip == InitRoundTrip /\ [][NextRoundTrip]_vars

\* C11: from_row(cluster.to_row()) yields a cluster whose orders, trackings
\* and purchase_orders sets, two costs, last_ship_date and group equal those
\* of the cluster, an empty set included
C11_RoundTrip ==
  pc = "parsed" =>
    /\ returned # None
    /\ returned[1].orders = heap[1].orders
    /\ returned[1].trackings = heap[1].trackings
    /\ returned[1].purchase_orders = heap[1].purchase_orders
    /\ returned[1].expected_cost = heap[1].expected_cost
    /\ returned[1].tracked_cost = heap[1].tracked_cost
    /\ returned[1].last_ship_date = heap[1].last_ship_date
    /\ returned[1].group = heap[1].group

----------------------------------------------------------------------------
(***************************************************************************)
(* fill_costs and fill_cancellations.  config.order_info[o] is what        *)
(* get_order_info answers for order o (a lookup outside its domain         *)
(* raises), config.cancellations_by_order what get_cancelled_items         *)
(* returns.                                                                *)
(***************************************************************************)
\* lines 23-37 for one cluster: an order whose lookup raises is skipped,
\* an empty email id is not added
fill_costs_cluster(cluster, order_info) ==
  LET known == cluster.orders \cap DOMAIN order_info
  IN [cluster EXCEPT
        !.expected_cost = SumOver(known, [o \in known |-> order_info[o].cost]),
        !.email_ids = <<{order_info[o].email_id :
                           o \in {x \in known : order_info[x].email_id # ""}}>>]

\* fill_costs(tqdm_msg, all_clusters, config, fetch_from_email)
fill_costs(h, all_clusters, order_info) ==
  [c \in DOMAIN h |->
     IF c \in Range(all_clusters) THEN fill_costs_cluster(h[c], order_info)
     ELSE h[c]]

\* lines 159-162 for the orders of `todo`, the smallest first
RECURSIVE cancelled_items_of(_, _)
cancelled_items_of(todo, cancellations_by_order) ==
  IF todo = {} THEN <<>>
  ELSE LET order == CHOOSE x \in todo : \A y \in todo : x <= y
       IN (IF order \in DOMAIN cancellations_by_order
           THEN cancellations_by_order[order] ELSE <<>>)
          \o cancelled_items_of(todo \ {order}, cancellations_by_order)

\* fill_cancellations(all_clusters, config)
fill_cancellations(h, all_clusters, cancellations_by_order) ==
  [c \in DOMAIN h |->
     IF c \in Range(all_clusters)
     THEN [h[c] EXCEPT !.cancelled_items =
                         <<cancelled_items_of(h[c].orders, cancellations_by_order)>>]
     ELSE h[c]]

(***************************************************************************)
(* write_clusters and get_existing_clusters: pickle                        *)
(***************************************************************************)
\* the parameters of Cluster._initiate
initiate_params ==
  {"orders", "trackings", "group", "expected_cost", "tracked_cost",
   "last_ship_date", "purchase_orders"}

\* the keys of the object's __dict__, which pickle stores as its state
state_keys(cluster) ==
  initiate_params
    \cup (IF cluster.non_reimbursed_trackings # <<>> THEN {"non_reimbursed_trackings"} ELSE {})
    \cup (IF cluster.email_ids # <<>> THEN {"email_ids"} ELSE {})
    \cup (IF cluster.cancelled_items # <<>> THEN {"cancelled_items"} ELSE {})

\* pickle.dump(clusters, output): the states of the listed objects
pickle_dump(h, cl) == [i \in DOMAIN cl |-> h[cl[i]]]

\* write_clusters(clusters): the content of CLUSTERS_FILE
write_clusters(h, cl) == <<pickle_dump(h, dedupe_clusters(h, cl))>>

\* Cluster.__setstate__(state) is self._initiate(**state): a key that is no
\* parameter of _initiate raises TypeError
setstate_raises(state) == ~(state_keys(state) \subseteq initiate_params)

setstate(state) ==
  Cluster_initiate(state.orders, state.trackings, state.group,
                   state.expected_cost, state.tracked_cost,
                   state.last_ship_date, state.purchase_orders)

\* get_existing_clusters(): the exception it raises, if any, the objects
\* pickle.load builds and the list it returns
get_existing_clusters(f) ==
  IF f = <<>> THEN [raised |-> "", heap |-> <<>>, clusters |-> <<>>]
  ELSE IF \E i \in DOMAIN f[1] : setstate_raises(f[1][i])
  THEN [raised |-> "TypeError", heap |-> <<>>, clusters |-> <<>>]
  ELSE LET h == [i \in DOMAIN f[1] |-> setstate(f[1][i])]
       IN [raised |-> "", heap |-> h,
           clusters |-> dedupe_clusters(h, [i \in DOMAIN f[1] |-> i])]

(***************************************************************************)
(* SpecPersist: clusters as update_clusters makes them, optionally costed  *)
(* by fill_costs and annotated by fill_cancellations, are written; a later *)
(* run loads them.                                                         *)
(***************************************************************************)
MaxPersist == 2        \* most clusters written

InitPersist ==
  /\ \E n \in 0..MaxPersist :
       /\ \E t \in [1..n -> SUBSET Ids \ {{}}] :
            heap = [c \in 1..n |->
                      Cluster_initiate({c}, t[c], 1, 0, 0, <<2>>, {})]
       /\ clusters = [i \in 1..n |-> i]
       /\ \E info \in PartialFuns(1..n, [cost : {1}, email_id : {"", "m"}]),
             cbo \in {f \in PartialFuns(1..n, {<<"item">>}) : Cardinality(DOMAIN f) <= 1} :
            config = [order_info |-> info, cancellations_by_order |-> cbo]
  /\ pc = "made"
  /\ prev_length = 0
  /\ NoReconcile
  /\ NoRow /\ NoFile /\ NoTrackings
  /\ heap0 = heap
  /\ clusters0 = clusters
  /\ saved = <<>>

\* reconcile_new, line 175: after update_clusters the run goes on to line 185
FillCosts ==
  /\ pc \in {"made", "updated"}
  /\ heap' = fill_costs(heap, clusters, config.order_info)
  /\ pc' = IF pc = "made" THEN "costed" ELSE "maps"
  /\ UNCHANGED <<clusters, prev_length, heap0, clusters0, saved>>
  /\ ReconcileUnchanged
  /\ RowUnchanged /\ FileUnchanged /\ TrackingsUnchanged /\ ConfigUnchanged

FillCancellations ==
  /\ pc \in {"made", "costed"}
  /\ heap' = fill_cancellations(heap, clusters, config.cancellations_by_order)
  /\ pc' = "annotated"
  /\ UNCHANGED <<clusters, prev_length, heap0, clusters0, saved>>
  /\ ReconcileUnchanged
  /\ RowUnchanged /\ FileUnchanged /\ TrackingsUnchanged /\ ConfigUnchanged

\* saved keeps the heap and dedupe_clusters(C) of the time of writing
WriteClusters ==
  /\ pc \in {"made", "costed", "annotated"}
  /\ file' = write_clusters(heap, clusters)
  /\ saved' = <<heap, dedupe_clusters(heap, clusters)>>
  /\ pc' = "written"
  /\ UNCHANGED <<heap, clusters, prev_length, heap0, clusters0>>
  /\ ReconcileUnchanged
  /\ RowUnchanged /\ TrackingsUnchanged /\ ConfigUnchanged

\* a later run: its heap holds the objects pickle.load built
GetExistingClusters ==
  /\ pc = "written"
  /\ LET r == get_existing_clusters(file)
     IN /\ heap' = r.heap
        /\ clusters' = r.clusters
        /\ pc' = IF r.raised # "" THEN "raised TypeError" ELSE "loaded"
  /\ UNCHANGED <<prev_length, heap0, clusters0, saved>>
  /\ ReconcileUnchanged
  /\ RowUnchanged /\ FileUnchanged /\ TrackingsUnchanged /\ ConfigUnchanged

NextPersist == FillCosts \/ FillCancellations \/ WriteClusters \/ GetExistingClusters

SpecPersist == InitPersist /\ [][NextPersist]_vars

\* the fields _initiate sets
CoreFields(cluster) ==
  <<cluster.orders, cluster.trackings, cluster.group, cluster.expected_cost,
    cluster.tracked_cost, cluster.last_ship_date, cluster.purchase_orders>>

\* C12: write_clusters(C) followed by get_existing_clusters() raises nothing
\* and returns the clusters of dedupe_clusters(C), every core field with the
\* value it had, also when fill_costs or fill_cancellations gave the
\* clusters email_ids or cancelled_items
C12_PersistReload ==
  /\ pc # "raised TypeError"
  /\ pc = "loaded" =>
       /\ Len(clusters) = Len(saved[2])
       /\ \A i \in DOMAIN clusters :
            CoreFields(heap[clusters[i]]) = CoreFields(saved[1][saved[2][i]])

----------------------------------------------------------------------------
(***************************************************************************)
(* find_cluster and update_clusters.  A tracking record is                 *)
(* [tracking_number, group, order_ids, ship_date]; trackings_dict lists    *)
(* the records in the order the two loops of update_clusters reach them,   *)
(* the records of one group side by side.                                  *)
(***************************************************************************)
\* Mutant: the group is not compared.
RECURSIVE find_cluster_any_group(_, _, _, _)
find_cluster_any_group(h, all_clusters, tracking, i) ==
  IF i > Len(all_clusters) THEN 0
  ELSE IF h[all_clusters[i]].orders \cap tracking.order_ids # {}
       THEN all_clusters[i]
       ELSE find_cluster_any_group(h, all_clusters, tracking, i + 1)

\* find_cluster(all_clusters, tracking) from the i-th cluster on: the first
\* cluster of the record's group that shares an order id, 0 for None
RECURSIVE find_cluster(_, _, _, _)
find_cluster(h, all_clusters, tracking, i) ==
  IF i > Len(all_clusters) THEN 0
  ELSE IF /\ h[all_clusters[i]].group = tracking.group
          /\ h[all_clusters[i]].orders \cap tracking.order_ids # {}
       THEN all_clusters[i]
       ELSE find_cluster(h, all_clusters, tracking, i + 1)

\* line 123
update_date(last_ship_date, ship_date) == StrMax(last_ship_date, ship_date)

\* lines 116-123: one turn of the inner loop of update_clusters; the heap is
\* a list of objects, a new cluster is the next one
update_clusters_turn(h, all_clusters, tracking) ==
  LET found == find_cluster(h, all_clusters, tracking, 1)
      cluster == IF found = 0 THEN Len(h) + 1 ELSE found
      h1 == IF found = 0 THEN Append(h, Cluster(tracking.group)) ELSE h
  IN [heap |-> [h1 EXCEPT
                  ![cluster].orders = @ \cup tracking.order_ids,
                  ![cluster].trackings = @ \cup {tracking.tracking_number},
                  ![cluster].last_ship_date = update_date(@, tracking.ship_date)],
      all_clusters |-> IF found = 0 THEN Append(all_clusters, cluster)
                       ELSE all_clusters]

(***************************************************************************)
(* SpecUpdate: update_clusters on an empty list (reconcile_new, line 172)  *)
(* and any few records; the i-th record carries tracking number i.         *)
(***************************************************************************)
MaxRecords == 3        \* most tracking records

OrderIds == {1, 2}

ShipDates == {<<1, 0>>, <<2>>}

\* the records of a group are one list of the dict: they follow each other
GroupedByGroup(d) ==
  \A i, j, k \in DOMAIN d : (i < j /\ j < k /\ d[i].group = d[k].group)
                              => d[j].group = d[i].group

TrackingRecords(n) ==
  {d \in [1..n -> [tracking_number : 1..n, group : Groups,
                   order_ids : SUBSET OrderIds, ship_date : ShipDates]] :
     /\ \A i \in 1..n : d[i].tracking_number = i
     /\ GroupedByGroup(d)}

UpdateStart ==
  /\ heap = <<>>
  /\ clusters = <<>>
  /\ processed = 0
  /\ pc = "update"
  /\ prev_length = 0
  /\ clusters_by_tracking = <<>>
  /\ uploaded = <<>>
  /\ heap0 = heap
  /\ clusters0 = clusters
  /\ saved = <<>>
  /\ NoRow /\ NoFile

InitUpdate ==
  /\ \E n \in 0..MaxRecords : trackings_dict \in TrackingRecords(n)
  /\ trackings_to_cost = <<>>
  /\ po_to_cost = <<>>
  /\ portal = [trackings_to_cost |-> <<>>, po_to_cost |-> <<>>]
  /\ non_portal = [trackings_to_costs |-> <<>>, po_to_cost |-> <<>>]
  /\ args = NoArgs
  /\ NoConfig
  /\ UpdateStart

\* one turn of the loops of update_clusters; after the last one the call
\* returns
UpdateClusters ==
  /\ pc = "update"
  /\ processed < Len(trackings_dict)
  /\ LET r == update_clusters_turn(heap, clusters, trackings_dict[processed + 1])
     IN /\ heap' = r.heap
        /\ clusters' = r.all_clusters
  /\ processed' = processed + 1
  /\ pc' = IF processed + 1 = Len(trackings_dict) THEN "updated" ELSE "update"
  /\ UNCHANGED <<prev_length, heap0, clusters0, saved, trackings_dict>>
  /\ ReconcileUnchanged
  /\ RowUnchanged /\ FileUnchanged /\ ConfigUnchanged

NextUpdate == UpdateClusters

SpecUpdate == InitUpdate /\ [][NextUpdate]_vars

\* the clusters of the record's group that share an order id with it
Matching(tracking) ==
  {i \in DOMAIN clusters :
     /\ heap[clusters[i]].group = tracking.group
     /\ heap[clusters[i]].orders \cap tracking.order_ids # {}}

\* C13: after update_clusters, started from an empty list, the orders sets
\* of two distinct clusters of the same group are disjoint
C13_OrdersDisjoint ==
  \A i, j \in DOMAIN clusters :
    (i # j /\ heap[clusters[i]].group = heap[clusters[j]].group)
      => heap[clusters[i]].orders \cap heap[clusters[j]].orders = {}

\* the record is held by a cluster of its group with a ship date not before
\* the record's
HeldBy(tracking) ==
  \E i \in DOMAIN clusters :
    LET c == heap[clusters[i]]
    IN /\ c.group = tracking.group
       /\ tracking.tracking_number \in c.trackings
       /\ tracking.order_ids \subseteq c.orders
       /\ ~StrGreater(tracking.ship_date, c.last_ship_date)

\* C17: update_clusters never removes a cluster; every record processed
\* is held by a cluster of its group with its tracking number, all its order
\* ids and a last_ship_date not before its ship date; a turn appends a new
\* cluster exactly when no cluster of the record's group shares an order id
C17_UpdateKeeps ==
  /\ [](\A k \in 1..processed : HeldBy(trackings_dict[k]))
  /\ [][/\ Len(clusters') >= Len(clusters)
        /\ SubSeq(clusters', 1, Len(clusters)) = clusters
        /\ processed' = processed + 1 =>
             /\ Len(clusters') <= Len(clusters) + 1
             /\ (Len(clusters') = Len(clusters) + 1)
                  <=> (Matching(trackings_dict[processed + 1]) = {})]_vars

\* three records are done: one made a cluster, one joined it with an earlier
\* ship date, one of the other group with the same order made its own
C17_Witness ==
  /\ pc = "updated"
  /\ processed = 3
  /\ Len(clusters) = 2
  /\ \E i \in DOMAIN clusters :
       /\ Cardinality(heap[clusters[i]].trackings) = 2
       /\ \E k \in 1..processed :
            /\ trackings_dict[k].tracking_number \in heap[clusters[i]].trackings
            /\ StrGreater(heap[clusters[i]].last_ship_date, trackings_dict[k].ship_date)
  /\ heap[clusters[1]].group # heap[clusters[2]].group
  /\ heap[clusters[1]].orders \cap heap[clusters[2]].orders # {}

----------------------------------------------------------------------------
(***************************************************************************)
(* Further claims about merge_by_purchase_orders, dedupe_clusters and      *)
(* fill_costs_new                                                          *)
(***************************************************************************)
\* C14: merge_by_purchase_orders fuses clusters of one and the same group
\* only, and the group of a cluster never changes.  Input cluster i holds
\* order i, so the orders of an output cluster name the inputs it is made of.
C14_SameGroupOnly ==
  pc = "done" =>
    /\ \A c \in DOMAIN heap : heap[c].group = heap0[c].group
    /\ \A i \in DOMAIN clusters :
         \A o \in heap[clusters[i]].orders :
           heap0[o].group = heap[clusters[i]].group

\* C15: every cluster dedupe_clusters retains has a tracking
C15_RetainedHasTracking ==
  pc = "deduped" =>
    \A i \in DOMAIN clusters : heap[clusters[i]].trackings # {}

\* C16: fill_costs_new raises nothing; a cluster the reset covers, without
\* purchase orders, ends with the cost of exactly the tuples whose first
\* tracking indexes to it, each once, and with non_reimbursed_trackings its
\* trackings less the trackings of those tuples, a subset of its trackings;
\* a tuple whose first tracking is not indexed adds to no cluster
C16_TupleChannel ==
  /\ pc # "raised AttributeError"
  /\ pc = "filled" =>
       \A c \in Range(clusters_by_tracking) :
         (heap[c].purchase_orders = {} /\ ~out_of_groups(args, heap[c])) =>
           /\ heap[c].tracked_cost = CostOf(TuplesLedBy(c))
           /\ heap[c].non_reimbursed_trackings
                = <<heap[c].trackings \ TupleTrackings(TuplesLedBy(c))>>
           /\ heap[c].non_reimbursed_trackings[1] \subseteq heap[c].trackings

\* the trackings and the orders held by the clusters of list cl in heap h
AllTrackings(h, cl) == UNION {h[cl[i]].trackings : i \in DOMAIN cl}

AllOrders(h, cl) == UNION {h[cl[i]].orders : i \in DOMAIN cl}

\* C18: merge_by_trackings_tuples loses nothing: all_clusters holds the same
\* trackings and the same orders before and after, and a cluster that left
\* all_clusters was merged into a cluster that is still in it
C18_MergeLosesNothing ==
  pc = "fill" =>
    /\ AllTrackings(heap, clusters) = AllTrackings(heap0, clusters0)
    /\ AllOrders(heap, clusters) = AllOrders(heap0, clusters0)
    /\ \A c \in Range(clusters0) \ Range(clusters) :
         \E d \in Range(clusters) :
           /\ heap0[c].trackings \subseteq heap[d].trackings
           /\ heap0[c].orders \subseteq heap[d].orders

\* C19: after merge_by_trackings_tuples every tracking of every cluster of
\* all_clusters is indexed to that cluster
C19_IndexConsistent ==
  pc = "fill" =>
    \A i \in DOMAIN clusters :
      \A t \in heap[clusters[i]].trackings :
        /\ t \in DOMAIN clusters_by_tracking
        /\ clusters_by_tracking[t] = clusters[i]

----------------------------------------------------------------------------
(***************************************************************************)
(* SpecPipeline: reconcile_new from its empty list on: update_clusters,    *)
(* fill_costs with every order priced, the maps, the index and             *)
(* merge_by_trackings_tuples.  clusters.merge_orders (line 176) is not     *)
(* defined in clusters.py and override_pos_and_costs belongs to the        *)
(* uploader: the clusters reach line 185 as fill_costs left them.  All     *)
(* records are of one group and one ship date; a tuple is a pair of        *)
(* tracking numbers.                                                       *)
(***************************************************************************)
\* the price get_order_info reports for an order
OrderPrices == [o \in OrderIds |-> [cost |-> o, email_id |-> ""]]

PipelineRecords(n) ==
  {d \in TrackingRecords(n) :
     \A i \in 1..n : d[i].group = 1 /\ d[i].ship_date = <<2>>}

PairKeys == {k \in TupleKeys(1..MaxRecords, 2) : Len(k) = 2}

InitPipeline ==
  /\ \E n \in 1..MaxRecords : trackings_dict \in PipelineRecords(n)
  /\ \E d \in Dicts(PairKeys, MaxTuples, {1}, {1}) :
       portal = [trackings_to_cost |-> d, po_to_cost |-> <<>>]
  /\ trackings_to_cost = portal.trackings_to_cost
  /\ po_to_cost = portal.po_to_cost
  /\ non_portal = [trackings_to_costs |-> <<>>, po_to_cost |-> <<>>]
  /\ args = NoArgs
  /\ config = [order_info |-> OrderPrices, cancellations_by_order |-> <<>>]
  /\ UpdateStart

NextPipeline ==
  UpdateClusters \/ FillCosts \/ GetMaps \/ MapClustersByTracking
    \/ MergeByTrackingsTuples

SpecPipeline == InitPipeline /\ [][NextPipeline]_vars

=============================================================================
